---- MODULE Spec2Model ----
(***************************************************************************)
(* A model of scripts/wechat_mp_publish.mjs: the four commands             *)
(* (upload-thumb, draft, publish, status), the image rewriter with its     *)
(* fingerprint cache, title resolution, the digest extractor and the       *)
(* chain of HTML rewrites applied to the rendered document.                *)
(*                                                                         *)
(* Texts (Markdown, HTML, paths, URLs) are TLA+ strings and are processed  *)
(* character by character, as the regular expressions of the script do.    *)
(* A string stands for a JavaScript string: one character is one UTF-16    *)
(* code unit.  Four characters stand for code units that cannot be        *)
(* written in a TLA+ string: "^" is a high surrogate, "~" is a low         *)
(* surrogate, "@" is U+2022 (the bullet glyph) and "%" is the backquote.   *)
(***************************************************************************)
EXTENDS Integers, Sequences, FiniteSets, TLC

VARIABLES
  cmd,          \* the sub-command of this run
  opts,         \* its options and the files/environment it reads
  pc,           \* position in the command
  exitCode,     \* -1 while running, else the process exit code
  errMsg,       \* what was reported on stderr: [kind, src]
  token,        \* access token held by the command
  calls,        \* history: the platform calls made so far, in order
  mdText,       \* cmdDraft: text of the Markdown file
  tokens,       \* cmdDraft: the token tree (mutated by rewriteImageTokens)
  path,         \* walk: position in the token tree (<<>> outside the walk)
  bytes,        \* handleImageToken: payload of the image being handled
  filename,     \* handleImageToken: filename sent with the upload
  cache,        \* rewriteImageTokens: fingerprint -> platform URL
  uploaded,     \* rewriteImageTokens: platform URLs in order of upload
  imgLog,       \* history: the images fetched so far: [path, src, bytes]
  snap,         \* history: cache/uploaded/calls when the current image began
  finalTitle,   \* cmdDraft: resolved title
  dg,           \* cmdDraft: digest
  contentHTML,  \* cmdDraft: the HTML being rewritten
  stageLog,     \* history: the rewrites applied to contentHTML, in order
  draftReq      \* cmdDraft: the article sent to draft/add

vars == <<cmd, opts, pc, exitCode, errMsg, token, calls, mdText, tokens, path,
          bytes, filename, cache, uploaded, imgLog, snap, finalTitle, dg,
          contentHTML, stageLog, draftReq>>

-----------------------------------------------------------------------------
(* Bounds of the model.                                                    *)

\* most image nodes in a document of the command runs
MaxImages == 2
\* most segments of a digest input text
MaxSegs == 2
\* largest digest length tried
MaxN == 3
\* most items of a generated list
MaxItems == 2
\* deepest nesting of the generated lists
MaxDepth == 2

-----------------------------------------------------------------------------
(* JavaScript string primitives.                                           *)

\* s.slice(a - 1, b): positions a..b, cut to the string
Sub(s, a, b) ==
  IF a > b \/ a > Len(s) \/ b < 1 THEN ""
  ELSE SubSeq(s, IF a < 1 THEN 1 ELSE a, IF b > Len(s) THEN Len(s) ELSE b)

\* the character at position i, "" outside the string
Ch(s, i) == IF i < 1 \/ i > Len(s) THEN "" ELSE SubSeq(s, i, i)

\* s.startsWith(pat, i - 1), positions counted from 1
StartsWithAt(s, pat, i) ==
  /\ i >= 1
  /\ i + Len(pat) - 1 <= Len(s)
  /\ SubSeq(s, i, i + Len(pat) - 1) = pat

StartsWith(s, pat) == StartsWithAt(s, pat, 1)

\* the first position in lo..hi where pat occurs, 0 when there is none;
\* the halves are searched left to right
RECURSIVE FirstIn(_, _, _, _)
FirstIn(s, pat, lo, hi) ==
  IF lo > hi THEN 0
  ELSE IF lo = hi THEN (IF StartsWithAt(s, pat, lo) THEN lo ELSE 0)
  ELSE LET orRight(left) ==
             IF left > 0 THEN left
             ELSE FirstIn(s, pat, ((lo + hi) \div 2) + 1, hi)
       IN  orRight(FirstIn(s, pat, lo, (lo + hi) \div 2))

\* s.indexOf(pat, from - 1) + 1: the first position >= from where pat
\* occurs, 0 when there is none
IndexOf(s, pat, from) ==
  FirstIn(s, pat, IF from < 1 THEN 1 ELSE from, Len(s) - Len(pat) + 1)

Contains(s, pat) == IndexOf(s, pat, 1) > 0

\* s.slice(i - 1): from position i to the end
From(s, i) == Sub(s, i, Len(s))

\* the class \s of a regular expression, and what trim() removes
IsSpace(c) == c \in {" ", "\n", "\t", "\r"}

\* [A-Za-z0-9_], the class \w
WordChars ==
  {"a", "b", "c", "d", "e", "f", "g", "h", "i", "j", "k", "l", "m", "n",
  "o", "p", "q", "r", "s", "t", "u", "v", "w", "x", "y", "z", "A", "B",
  "C", "D", "E", "F", "G", "H", "I", "J", "K", "L", "M", "N", "O", "P",
  "Q", "R", "S", "T", "U", "V", "W", "X", "Y", "Z", "0", "1", "2", "3",
  "4", "5", "6", "7", "8", "9", "_"}

IsWord(c) == c \in WordChars

\* first position >= i whose character is not white space (Len(s)+1 if none)
RECURSIVE SkipSpace(_, _)
SkipSpace(s, i) ==
  IF i <= Len(s) /\ IsSpace(Ch(s, i)) THEN SkipSpace(s, i + 1) ELSE i

\* last position <= i whose character is not white space (0 if none)
RECURSIVE SkipSpaceBack(_, _)
SkipSpaceBack(s, i) ==
  IF i >= 1 /\ IsSpace(Ch(s, i)) THEN SkipSpaceBack(s, i - 1) ELSE i

\* s.trim()
Trim(s) ==
  LET cut(a) == IF a > Len(s) THEN "" ELSE SubSeq(s, a, SkipSpaceBack(s, Len(s)))
  IN  cut(SkipSpace(s, 1))

\* first position >= i whose character is c (Len(s)+1 if none): the end of
\* a run [^c]*
Until(s, c, i) ==
  LET orEnd(k) == IF k = 0 THEN (IF i > Len(s) THEN i ELSE Len(s) + 1) ELSE k
  IN  orEnd(IndexOf(s, c, i))

\* s.replace(/\s+/g, " ")
RECURSIVE CollapseSpace(_, _)
CollapseSpace(s, i) ==
  IF i > Len(s) THEN ""
  ELSE LET char(c) ==
             IF IsSpace(c) THEN " " \o CollapseSpace(s, SkipSpace(s, i))
             ELSE c \o CollapseSpace(s, i + 1)
       IN  char(Ch(s, i))

\* \b in front of position i
WordBoundary(s, i) == IsWord(Ch(s, i - 1)) # IsWord(Ch(s, i))

-----------------------------------------------------------------------------
(* extractTitleFromMarkdown.                                               *)

\* a line terminator: what "." does not match and what ^ and $ look at
IsLT(c) == c \in {"\n", "\r"}

\* ^ under the flag m: position i starts a line
LineStart(s, i) == i = 1 \/ (i >= 2 /\ i <= Len(s) + 1 /\ IsLT(Ch(s, i - 1)))

\* first position >= i holding a line terminator (Len(s)+1 if none): where
\* a greedy .+ stops, and where $ holds
RECURSIVE LineEnd(_, _)
LineEnd(s, i) ==
  IF i <= Len(s) /\ ~IsLT(Ch(s, i)) THEN LineEnd(s, i + 1) ELSE i

\* Where the group of  \s{min,}(.+)\s*$  starts when the white space begins
\* at position a, 0 when the pattern fails there.  \s is greedy: it gives
\* characters back, one at a time, until "." has a character to match;
\* k runs down from the end of the white space.
RECURSIVE GroupStart(_, _, _, _)
GroupStart(s, a, min, k) ==
  IF k < a + min THEN 0
  ELSE IF k <= Len(s) /\ ~IsLT(Ch(s, k)) THEN k
  ELSE GroupStart(s, a, min, k - 1)

\* fm.match(/^\s*title:\s*(.+)\s*$/m): <<TRUE, m[1]>> for the leftmost
\* match starting at a line start >= i, <<FALSE, "">> when there is none
RECURSIVE MatchTitleField(_, _)
MatchTitleField(fm, i) ==
  IF i > Len(fm) + 1 THEN <<FALSE, "">>
  ELSE
    LET group(k) ==
          IF k > 0 THEN <<TRUE, Sub(fm, k, LineEnd(fm, k) - 1)>>
          ELSE MatchTitleField(fm, i + 1)
        field(j) ==
          IF LineStart(fm, i) /\ StartsWithAt(fm, "title:", j)
          THEN group(GroupStart(fm, j + 6, 0, SkipSpace(fm, j + 6)))
          ELSE MatchTitleField(fm, i + 1)
    IN  field(SkipSpace(fm, i))

\* md.match(/^#\s+(.+)\s*$/m): <<TRUE, h1[1]>> or <<FALSE, "">>
RECURSIVE MatchH1(_, _)
MatchH1(md, i) ==
  IF i > Len(md) THEN <<FALSE, "">>
  ELSE
    LET group(k) ==
          IF k > 0 THEN <<TRUE, Sub(md, k, LineEnd(md, k) - 1)>>
          ELSE MatchH1(md, i + 1)
    IN  IF LineStart(md, i) /\ Ch(md, i) = "#"
        THEN group(GroupStart(md, i + 1, 1, SkipSpace(md, i + 1)))
        ELSE MatchH1(md, i + 1)

IsQuote(c) == c \in {"'", "\""}

\* s.replace(/^['"]|['"]$/g, "")
StripQuotes(s) ==
  LET cut(a) ==
        Sub(s, a, IF Len(s) >= a /\ IsQuote(Ch(s, Len(s)))
                  THEN Len(s) - 1 ELSE Len(s))
  IN  cut(IF IsQuote(Ch(s, 1)) THEN 2 ELSE 1)

\* the front-matter branch: <<TRUE, title>> when it returns, else <<FALSE, "">>
FrontMatterTitle(md) ==
  LET title(m) ==
        IF m[1] THEN <<TRUE, StripQuotes(Trim(m[2]))>> ELSE <<FALSE, "">>
      field(fmEnd) ==
        IF fmEnd > 0 THEN title(MatchTitleField(Sub(md, 4, fmEnd - 1), 1))
        ELSE <<FALSE, "">>
  IN  IF StartsWith(md, "---") THEN field(IndexOf(md, "\n---", 1))
      ELSE <<FALSE, "">>

extractTitleFromMarkdown(md) ==
  IF md = "" THEN ""
  ELSE LET heading(h1) == IF h1[1] THEN Trim(h1[2]) ELSE ""
           field(fm) == IF fm[1] THEN fm[2] ELSE heading(MatchH1(md, 1))
       IN  field(FrontMatterTitle(md))

\* cmdDraft, the title: the --title option, else the Markdown's
resolveTitle(title, md) ==
  LET given(t) == IF t # "" THEN t ELSE extractTitleFromMarkdown(md)
  IN  given(Trim(title))

-----------------------------------------------------------------------------
(* autoDigestFromMarkdown.                                                 *)

\* the rough front-matter cut
CutFrontMatter(s) ==
  LET cut(j) == IF j > 0 THEN From(s, j + 4) ELSE s
  IN  IF StartsWith(s, "---") THEN cut(IndexOf(s, "\n---", 4)) ELSE s

\* s.replace(/%%%[\s\S]*?%%%/g, " "), "%" standing for the backquote
RECURSIVE StripFences(_, _)
StripFences(s, i) ==
  IF i > Len(s) THEN ""
  ELSE LET fence(e) ==
             IF e > 0 THEN " " \o StripFences(s, e + 3)
             ELSE Ch(s, i) \o StripFences(s, i + 1)
       IN  fence(IF StartsWithAt(s, "%%%", i) THEN IndexOf(s, "%%%", i + 3)
                 ELSE 0)

\* s.replace(/%[^%]*%/g, " "), "%" standing for the backquote
RECURSIVE StripInlineCode(_, _)
StripInlineCode(s, i) ==
  IF i > Len(s) THEN ""
  ELSE LET code(e) ==
             IF e <= Len(s) THEN " " \o StripInlineCode(s, e + 1)
             ELSE Ch(s, i) \o StripInlineCode(s, i + 1)
       IN  code(IF Ch(s, i) = "%" THEN Until(s, "%", i + 1) ELSE Len(s) + 1)

\* \[[^\]]*]\([^)]+\) at position i: <<end, end of the text>>, or <<0, 0>>
BracketParen(s, i) ==
  LET paren(e1, e2) ==
        IF e2 <= Len(s) /\ e2 > e1 + 2 THEN <<e2, e1>> ELSE <<0, 0>>
      bracket(e1) ==
        IF e1 <= Len(s) /\ Ch(s, e1 + 1) = "("
        THEN paren(e1, Until(s, ")", e1 + 2))
        ELSE <<0, 0>>
  IN  IF Ch(s, i) = "[" THEN bracket(Until(s, "]", i + 1)) ELSE <<0, 0>>

\* s.replace(/!\[[^\]]*]\([^)]+\)/g, " ")
RECURSIVE StripImages(_, _)
StripImages(s, i) ==
  IF i > Len(s) THEN ""
  ELSE LET image(m) ==
             IF m[1] > 0 THEN " " \o StripImages(s, m[1] + 1)
             ELSE Ch(s, i) \o StripImages(s, i + 1)
       IN  image(IF Ch(s, i) = "!" THEN BracketParen(s, i + 1) ELSE <<0, 0>>)

\* s.replace(/\[([^\]]*)]\([^)]+\)/g, "$1")
RECURSIVE UnwrapLinks(_, _)
UnwrapLinks(s, i) ==
  IF i > Len(s) THEN ""
  ELSE LET link(m) ==
             IF m[1] > 0
             THEN Sub(s, i + 1, m[2] - 1) \o UnwrapLinks(s, m[1] + 1)
             ELSE Ch(s, i) \o UnwrapLinks(s, i + 1)
       IN  link(BracketParen(s, i))

\* <[^>]+> at position i: its last position, or 0
TagEnd(s, i) ==
  LET tag(e) == IF e <= Len(s) /\ e > i + 1 THEN e ELSE 0
  IN  IF Ch(s, i) = "<" THEN tag(Until(s, ">", i + 1)) ELSE 0

\* s.replace(/<[^>]+>/g, rep)
RECURSIVE ReplaceTags(_, _, _)
ReplaceTags(s, rep, i) ==
  IF i > Len(s) THEN ""
  ELSE LET tag(e) ==
             IF e > 0 THEN rep \o ReplaceTags(s, rep, e + 1)
             ELSE Ch(s, i) \o ReplaceTags(s, rep, i + 1)
       IN  tag(TagEnd(s, i))

\* s.replace(/[#>*_|-]/g, " ")
RECURSIVE StripMarkers(_, _)
StripMarkers(s, i) ==
  IF i > Len(s) THEN ""
  ELSE LET marker(c) ==
             IF c \in {"#", ">", "*", "_", "|", "-"} THEN " " ELSE c
       IN  marker(Ch(s, i)) \o StripMarkers(s, i + 1)

\* the text autoDigestFromMarkdown truncates
DigestText(md) ==
  Trim(CollapseSpace(
    StripMarkers(
      ReplaceTags(
        UnwrapLinks(
          StripImages(
            StripInlineCode(
              StripFences(CutFrontMatter(Trim(md)), 1), 1), 1), 1), " ", 1), 1), 1))

IsHighSurrogate(c) == c = "^"
IsLowSurrogate(c) == c = "~"

\* s.split(""): the UTF-16 units of s
ArrayFromUnits(s, i) == [k \in 1..(Len(s) - i + 1) |-> Ch(s, i + k - 1)]

\* Array.from(s): the code points of s, a surrogate pair being one of them
RECURSIVE ArrayFrom(_, _)
ArrayFrom(s, i) ==
  IF i > Len(s) THEN <<>>
  ELSE IF IsHighSurrogate(Ch(s, i)) /\ IsLowSurrogate(Ch(s, i + 1))
       THEN <<Sub(s, i, i + 1)>> \o ArrayFrom(s, i + 2)
       ELSE <<Ch(s, i)>> \o ArrayFrom(s, i + 1)

\* r.join("")
RECURSIVE Join(_)
Join(r) == IF r = <<>> THEN "" ELSE Head(r) \o Join(Tail(r))

\* r.slice(0, n).join("") + "..."
Truncate(r, n) == Join(SubSeq(r, 1, n)) \o "..."

autoDigestFromMarkdown(md, n) ==
  IF md = "" \/ n <= 0 THEN ""
  ELSE LET cut(s, r) == IF Len(r) <= n THEN s ELSE Truncate(r, n)
           codePoints(s) == cut(s, ArrayFrom(s, 1))
       IN  codePoints(DigestText(md))

-----------------------------------------------------------------------------
(* The HTML rewrites of cmdDraft.  Every pattern below carries the flag i  *)
(* in the script, so literals are compared in lower case.                  *)

\* the lower-case letter of each upper-case letter
LowerCase ==
  [A |-> "a", B |-> "b", C |-> "c", D |-> "d", E |-> "e", F |-> "f", G |->
   "g", H |-> "h", I |-> "i", J |-> "j", K |-> "k", L |-> "l", M |-> "m",
   N |-> "n", O |-> "o", P |-> "p", Q |-> "q", R |-> "r", S |-> "s", T |->
   "t", U |-> "u", V |-> "v", W |-> "w", X |-> "x", Y |-> "y", Z |-> "z"]

LowerCh(c) == IF c \in DOMAIN LowerCase THEN LowerCase[c] ELSE c

RECURSIVE Lower(_)
Lower(s) == IF s = "" THEN "" ELSE LowerCh(Ch(s, 1)) \o Lower(From(s, 2))

\* pat (lower case, beginning with "<") matches at position i under flag i
MatchAt(s, pat, i) ==
  /\ Ch(s, i) = "<"
  /\ i + Len(pat) - 1 <= Len(s)
  /\ Lower(SubSeq(s, i, i + Len(pat) - 1)) = pat

\* first position >= from where pat matches (flag i), 0 when none
RECURSIVE Find(_, _, _)
Find(s, pat, from) ==
  LET at(j) ==
        IF j > Len(s) THEN 0
        ELSE IF MatchAt(s, pat, j) THEN j
        ELSE Find(s, pat, j + 1)
  IN  at(Until(s, "<", from))

\* <name\b[^>]*> at position i: the position of its ">", or 0
OpenTagEnd(s, name, i) ==
  LET close(e) == IF e <= Len(s) THEN e ELSE 0
  IN  IF MatchAt(s, "<" \o name, i) /\ WordBoundary(s, i + Len(name) + 1)
      THEN close(Until(s, ">", i + Len(name) + 1))
      ELSE 0

\* <name\b[^>]*>[\s\S]*?<\/name> at position i:
\* <<position of the ">" of the opening tag, first position of the closing
\* tag>>, or <<0, 0>>
Element(s, name, i) ==
  LET pair(oe, ce) == IF ce > 0 THEN <<oe, ce>> ELSE <<0, 0>>
      open(oe) ==
        IF oe > 0 THEN pair(oe, Find(s, "</" \o name \o ">", oe + 1))
        ELSE <<0, 0>>
  IN  open(OpenTagEnd(s, name, i))

\* /\bchecked\b/i.test(m)
RECURSIVE HasChecked(_, _)
HasChecked(m, i) ==
  IF i + 6 > Len(m) THEN FALSE
  ELSE \/ /\ Lower(Sub(m, i, i + 6)) = "checked"
          /\ WordBoundary(m, i)
          /\ WordBoundary(m, i + 7)
       \/ HasChecked(m, i + 1)

\* [^>]*type="checkbox" from position i on: some position of the run of
\* characters other than ">" starts the literal (flag i)
RECURSIVE HasCheckboxType(_, _, _)
HasCheckboxType(s, i, e) ==
  IF i + 14 > e THEN FALSE
  ELSE \/ Lower(Sub(s, i, i + 14)) = "type=\"checkbox\""
       \/ HasCheckboxType(s, i + 1, e)

\* <input\b[^>]*type="checkbox"[^>]*> at position i: the position of its
\* ">", or 0
CheckboxInputEnd(s, i) ==
  LET input(e) == IF e > 0 /\ HasCheckboxType(s, i + 6, e - 1) THEN e ELSE 0
  IN  input(OpenTagEnd(s, "input", i))

RECURSIVE StripTaskListInputsFrom(_, _)
StripTaskListInputsFrom(html, i) ==
  LET input(j, e) ==
        IF e > 0
        THEN Sub(html, i, j - 1)
               \o (IF HasChecked(Sub(html, j, e), 1) THEN "[x] " ELSE "[ ] ")
               \o StripTaskListInputsFrom(html, e + 1)
        ELSE Sub(html, i, j) \o StripTaskListInputsFrom(html, j + 1)
      at(j) ==
        IF j > Len(html) THEN From(html, i)
        ELSE input(j, CheckboxInputEnd(html, j))
  IN  at(Until(html, "<", i))

\* the rendered HTML left as it is
KeepInputs(html) == html

stripTaskListInputs(html) == StripTaskListInputsFrom(html, 1)

stripTags(s) == Trim(CollapseSpace(ReplaceTags(s, "", 1), 1))

\* s.match(/<a[\s\S]*?<\/b>/gi) for the pairs <<a, b>> of opens/closes:
\* the successive matches from position i on
RECURSIVE MatchAll(_, _, _, _)
MatchAll(s, opens, closes, i) ==
  LET match(j, o, c) ==
        IF o # {} /\ c > 0
        THEN <<Sub(s, j, c + Len(CHOOSE p \in closes : MatchAt(s, p, c)) - 1)>>
               \o MatchAll(s, opens, closes,
                           c + Len(CHOOSE p \in closes : MatchAt(s, p, c)))
        ELSE MatchAll(s, opens, closes, j + 1)
      least(cs) == IF cs = {} THEN 0 ELSE CHOOSE x \in cs : \A y \in cs : x <= y
      close(j, o) ==
        match(j, o,
              IF o = {} THEN 0
              ELSE least({Find(s, c, j + Len(CHOOSE p \in o : TRUE)) :
                            c \in closes} \ {0}))
      at(j) ==
        IF j > Len(s) THEN <<>>
        ELSE close(j, {p \in opens : MatchAt(s, p, j)})
  IN  at(Until(s, "<", i))

\* lines.join(sep)
RECURSIVE JoinWith(_, _)
JoinWith(r, sep) ==
  IF r = <<>> THEN ""
  ELSE IF Len(r) = 1 THEN r[1]
  ELSE r[1] \o sep \o JoinWith(Tail(r), sep)

\* the replacement of one table
TableParagraph(table) ==
  LET cellTexts(cells) == [k \in 1..Len(cells) |-> stripTags(cells[k])]
      line(row) ==
        JoinWith(cellTexts(MatchAll(row, {"<th", "<td"}, {"</th>", "</td>"}, 1)),
                 " | ")
      paragraph(rows) ==
        IF Len(rows) = 0 THEN ""
        ELSE "<p>" \o JoinWith([k \in 1..Len(rows) |-> line(rows[k])], "<br>")
               \o "</p>"
  IN  paragraph(MatchAll(table, {"<tr"}, {"</tr>"}, 1))

RECURSIVE ReplaceTablesFrom(_, _)
ReplaceTablesFrom(html, i) ==
  LET table(j, c) ==
        IF c > 0
        THEN Sub(html, i, j - 1) \o TableParagraph(Sub(html, j, c + 7))
               \o ReplaceTablesFrom(html, c + 8)
        ELSE Sub(html, i, j) \o ReplaceTablesFrom(html, j + 1)
      at(j) ==
        IF j = 0 THEN From(html, i)
        ELSE table(j, Find(html, "</table>", j + 6))
  IN  at(Find(html, "<table", i))

replaceTables(html) == ReplaceTablesFrom(html, 1)

\* <hr\s*\/?> at position i: the position of its ">", or 0
HrEnd(s, i) ==
  LET close(b) == IF Ch(s, b) = ">" THEN b ELSE 0
      slash(a) == close(IF Ch(s, a) = "/" THEN a + 1 ELSE a)
  IN  IF MatchAt(s, "<hr", i) THEN slash(SkipSpace(s, i + 3)) ELSE 0

RECURSIVE ReplaceHrFrom(_, _)
ReplaceHrFrom(html, i) ==
  LET hr(j, e) ==
        IF e > 0 THEN Sub(html, i, j - 1) \o ReplaceHrFrom(html, e + 1)
        ELSE Sub(html, i, j) \o ReplaceHrFrom(html, j + 1)
      at(j) == IF j = 0 THEN From(html, i) ELSE hr(j, HrEnd(html, j))
  IN  at(Find(html, "<hr", i))

replaceHr(html) == ReplaceHrFrom(html, 1)

RECURSIVE StripLinksFrom(_, _)
StripLinksFrom(html, i) ==
  LET link(j, m) ==
        IF m[1] > 0
        THEN Sub(html, i, j - 1) \o Sub(html, m[1] + 1, m[2] - 1)
               \o StripLinksFrom(html, m[2] + 4)
        ELSE Sub(html, i, j) \o StripLinksFrom(html, j + 1)
      at(j) == IF j = 0 THEN From(html, i) ELSE link(j, Element(html, "a", j))
  IN  at(Find(html, "<a", i))

stripLinks(html) == StripLinksFrom(html, 1)

\* the first </p> at or after position i that \s*<\/li> follows, or 0
RECURSIVE ParagraphCloseBeforeItemClose(_, _)
ParagraphCloseBeforeItemClose(s, i) ==
  LET at(c) ==
        IF c = 0 THEN 0
        ELSE IF MatchAt(s, "</li>", SkipSpace(s, c + 4)) THEN c
        ELSE ParagraphCloseBeforeItemClose(s, c + 1)
  IN  at(Find(s, "</p>", i))

\* <li\b([^>]*)>\s*<p>([\s\S]*?)<\/p>\s*<\/li> at position i:
\* <<">" of <li>, first of the body, first of </p>, last of </li>>> or zeros
ItemParagraph(s, i) ==
  LET close(oe, p, c) ==
        IF c > 0 THEN <<oe, p + 3, c, SkipSpace(s, c + 4) + 4>>
        ELSE <<0, 0, 0, 0>>
      paragraph(oe, p) ==
        IF MatchAt(s, "<p>", p)
        THEN close(oe, p, ParagraphCloseBeforeItemClose(s, p + 3))
        ELSE <<0, 0, 0, 0>>
      open(oe) ==
        IF oe > 0 THEN paragraph(oe, SkipSpace(s, oe + 1)) ELSE <<0, 0, 0, 0>>
  IN  open(OpenTagEnd(s, "li", i))

RECURSIVE FlattenListItemParagraphsFrom(_, _)
FlattenListItemParagraphsFrom(html, i) ==
  LET item(j, m) ==
        IF m[1] > 0
        THEN Sub(html, i, j - 1)
               \o "<li" \o Sub(html, j + 3, m[1] - 1) \o ">"
               \o Sub(html, m[2], m[3] - 1) \o "</li>"
               \o FlattenListItemParagraphsFrom(html, m[4] + 1)
        ELSE Sub(html, i, j) \o FlattenListItemParagraphsFrom(html, j + 1)
      at(j) == IF j = 0 THEN From(html, i) ELSE item(j, ItemParagraph(html, j))
  IN  at(Find(html, "<li", i))

flattenListItemParagraphs(html) == FlattenListItemParagraphsFrom(html, 1)

RECURSIVE RemoveEmptyListItemsFrom(_, _)
RemoveEmptyListItemsFrom(html, i) ==
  LET item(j, m) ==
        IF m[1] > 0
        THEN Sub(html, i, j - 1)
               \o (IF stripTags(Sub(html, m[1] + 1, m[2] - 1)) # ""
                   THEN Sub(html, j, m[2] + 4) ELSE "")
               \o RemoveEmptyListItemsFrom(html, m[2] + 5)
        ELSE Sub(html, i, j) \o RemoveEmptyListItemsFrom(html, j + 1)
      at(j) == IF j = 0 THEN From(html, i) ELSE item(j, Element(html, "li", j))
  IN  at(Find(html, "<li", i))

removeEmptyListItems(html) == RemoveEmptyListItemsFrom(html, 1)

\* list.match(/<li\b[^>]*>[\s\S]*?<\/li>/gi) from position i on
RECURSIVE ListItems(_, _)
ListItems(list, i) ==
  LET item(j, m) ==
        IF m[1] > 0
        THEN <<Sub(list, j, m[2] + 4)>> \o ListItems(list, m[2] + 5)
        ELSE ListItems(list, j + 1)
      at(j) == IF j = 0 THEN <<>> ELSE item(j, Element(list, "li", j))
  IN  at(Find(list, "<li", i))

\* the first </p> at or after position i that only white space follows
RECURSIVE ParagraphCloseAtEnd(_, _)
ParagraphCloseAtEnd(s, i) ==
  LET at(c) ==
        IF c = 0 THEN 0
        ELSE IF SkipSpace(s, c + 4) > Len(s) THEN c
        ELSE ParagraphCloseAtEnd(s, c + 1)
  IN  at(Find(s, "</p>", i))

\* body.replace(/^\s*<p[^>]*>([\s\S]*?)<\/p>\s*$/i, "$1")
UnwrapParagraph(body) ==
  LET close(e, c) == IF c > 0 THEN Sub(body, e + 1, c - 1) ELSE body
      open(e) ==
        IF e <= Len(body) THEN close(e, ParagraphCloseAtEnd(body, e + 1))
        ELSE body
      at(p) ==
        IF MatchAt(body, "<p", p) THEN open(Until(body, ">", p + 2)) ELSE body
  IN  at(SkipSpace(body, 1))

\* li.replace(/^<li\b[^>]*>|<\/li>$/gi, "").trim(), unwrapped and trimmed
ItemText(li) ==
  LET cut(a) ==
        Sub(li, a, IF a <= Len(li) - 4 /\ MatchAt(li, "</li>", Len(li) - 4)
                   THEN Len(li) - 5 ELSE Len(li))
      open(oe) == cut(IF oe > 0 THEN oe + 1 ELSE 1)
  IN  Trim(UnwrapParagraph(Trim(open(OpenTagEnd(li, "li", 1)))))

Digits == "0123456789"

\* String(n) for n >= 0
RECURSIVE NumberToString(_)
NumberToString(n) ==
  IF n < 10 THEN SubSeq(Digits, n + 1, n + 1)
  ELSE NumberToString(n \div 10) \o SubSeq(Digits, (n % 10) + 1, (n % 10) + 1)

\* what precedes the text of item number k (counted from 1) of a list:
\* U+2022 and a space in <ul>, the index and a period in <ol>
ItemPrefix(name, k) ==
  IF name = "ul" THEN "@ " ELSE NumberToString(k) \o ". "

\* the paragraphs that replace one list; name in {"ul", "ol"}
ListParagraphs(list, name) ==
  LET line(k, unwrapped) ==
        IF unwrapped = "" THEN ""
        ELSE "<p>" \o ItemPrefix(name, k) \o unwrapped \o "</p>"
      lines(items) == [k \in 1..Len(items) |-> line(k, ItemText(items[k]))]
  IN  Join(lines(ListItems(list, 1)))

\* out.replace(/<name\b[^>]*>([\s\S]*?)<\/name>/gi, ...) for a list element
RECURSIVE ConvertListsFrom(_, _, _)
ConvertListsFrom(html, name, i) ==
  LET list(j, m) ==
        IF m[1] > 0
        THEN Sub(html, i, j - 1)
               \o ListParagraphs(Sub(html, m[1] + 1, m[2] - 1), name)
               \o ConvertListsFrom(html, name, m[2] + 5)
        ELSE Sub(html, i, j) \o ConvertListsFrom(html, name, j + 1)
      at(j) == IF j = 0 THEN From(html, i) ELSE list(j, Element(html, name, j))
  IN  at(Find(html, "<" \o name, i))

convertListsToParagraphs(html) ==
  ConvertListsFrom(ConvertListsFrom(html, "ul", 1), "ol", 1)

H2Open ==
  "<h2 style=\"padding:1px 12.5px;color:#fff;margin:1.2em 0 1em;border-radius:4px;display:inline-block;background-color:rgb(72,112,172);font-size:1.3em;visibility:visible;\"><span leaf=\"\" style=\"visibility:visible;\">"
H3Open ==
  "<h3 style=\"padding:0;color:rgb(72,112,172);margin:1.2em 0 1em;font-size:1.3em;\"><span leaf=\"\">"

\* out.replace(/<name\b[^>]*>([\s\S]*?)<\/name>/gi, open + "$1" + close)
RECURSIVE RewriteElementFrom(_, _, _, _, _)
RewriteElementFrom(html, name, open, close, i) ==
  LET element(j, m) ==
        IF m[1] > 0
        THEN Sub(html, i, j - 1)
               \o (IF open = "" THEN ""
                   ELSE open \o Sub(html, m[1] + 1, m[2] - 1) \o close)
               \o RewriteElementFrom(html, name, open, close, m[2] + 5)
        ELSE Sub(html, i, j) \o RewriteElementFrom(html, name, open, close, j + 1)
      at(j) == IF j = 0 THEN From(html, i) ELSE element(j, Element(html, name, j))
  IN  at(Find(html, "<" \o name, i))

convertHeadings(html) ==
  RewriteElementFrom(
    RewriteElementFrom(RewriteElementFrom(html, "h1", "", "", 1),
                       "h2", H2Open, "</span></h2>", 1),
    "h3", H3Open, "</span></h3>", 1)

PStyled ==
  "<p style=\"margin:10px 0;letter-spacing:0;word-break:break-word;line-height:1.75;color:#242424\">"
BlockquoteStyled ==
  "<blockquote style=\"margin:12px 0;padding-left:12px;border-left:3px solid #e0e0e0;letter-spacing:0;word-break:break-word;color:#3a3a3a;line-height:1.75\">"

\* out.replace(/pat/gi, rep) for a literal pat beginning with "<"
RECURSIVE ReplaceLiteralFrom(_, _, _, _)
ReplaceLiteralFrom(html, pat, rep, i) ==
  LET at(j) ==
        IF j = 0 THEN From(html, i)
        ELSE Sub(html, i, j - 1) \o rep
               \o ReplaceLiteralFrom(html, pat, rep, j + Len(pat))
  IN  at(Find(html, pat, i))

styleParagraphs(html) ==
  ReplaceLiteralFrom(ReplaceLiteralFrom(html, "<p>", PStyled, 1),
                     "<blockquote>", BlockquoteStyled, 1)

BodyStyle ==
  "color:#242424;padding:8px 0;line-height:1.75;font-size:17px;"
    \o "font-family:'PingFang SC','Hiragino Sans GB','Helvetica Neue',Arial,sans-serif;word-break:break-word;"
LinkStyle == " style=\"color:#576b95;font-weight:600;text-decoration:none\">"
CodeStyled ==
  "<code style=\"background:#f7f7f7;color:#202124;padding:2px 4px;border-radius:4px\">"
PreStyled ==
  "<pre style=\"background:#f7f7f7;color:#202124;padding:12px;border-radius:8px;overflow:auto\"><code>"

\* html.replace(/<a\b([^>]*)>/gi, '<a $1 style="...">')
RECURSIVE StyleLinksFrom(_, _)
StyleLinksFrom(html, i) ==
  LET link(j, e) ==
        IF e > 0
        THEN Sub(html, i, j - 1) \o "<a " \o Sub(html, j + 2, e - 1) \o LinkStyle
               \o StyleLinksFrom(html, e + 1)
        ELSE Sub(html, i, j) \o StyleLinksFrom(html, j + 1)
      at(j) == IF j = 0 THEN From(html, i) ELSE link(j, OpenTagEnd(html, "a", j))
  IN  at(Find(html, "<a", i))

\* s.replace(/<pre><code class="language-[^"]*">/gi, PreStyled)
RECURSIVE StylePreFrom(_, _)
StylePreFrom(html, i) ==
  LET pre(j, q) ==
        IF Sub(html, q, q + 1) = "\">"
        THEN Sub(html, i, j - 1) \o PreStyled \o StylePreFrom(html, q + 2)
        ELSE Sub(html, i, j) \o StylePreFrom(html, j + 1)
      at(j) ==
        IF j = 0 THEN From(html, i)
        ELSE pre(j, Until(html, "\"", j + 27))
  IN  at(Find(html, "<pre><code class=\"language-", i))

applyTheme(html) ==
  "<div style=\"" \o BodyStyle \o "\">"
    \o StylePreFrom(
         ReplaceLiteralFrom(StyleLinksFrom(html, 1), "<code>", CodeStyled, 1), 1)
    \o "</div>"

-----------------------------------------------------------------------------
(* The token tree md.parse returns and md.renderer.render serialises.      *)
(* A node is [type, a, kids]: a is the node's one attribute (the src of an *)
(* image, the content of a text, the level of a heading, "task" for the    *)
(* lists and items the task-list plugin marked, "hidden" for the paragraph *)
(* of a tight list item).                                                  *)

Node(type, a, kids) == [type |-> type, a |-> a, kids |-> kids]

Text(s)          == Node("text", s, <<>>)
Image(src, alt)  == Node("image", src, <<Text(alt)>>)
HtmlInline(raw)  == Node("html_inline", raw, <<>>)
Link(href, kids) == Node("link", href, kids)
CodeInline(c)    == Node("code_inline", c, <<>>)
Paragraph(kids)  == Node("paragraph", "", kids)
Hidden(kids)     == Node("paragraph", "hidden", kids)
Heading(l, kids) == Node("heading", l, kids)
BulletList(a, items)  == Node("bullet_list", a, items)
OrderedList(a, items) == Node("ordered_list", a, items)
ListItem(a, kids) == Node("list_item", a, kids)
Fence(code)      == Node("fence", code, <<>>)
Hr               == Node("hr", "", <<>>)
Table(head, rows) ==
  LET cellsOf(tag, r) == [k \in 1..Len(r) |-> Node(tag, "", <<Text(r[k])>>)]
  IN  Node("table", "",
           <<Node("thead", "", <<Node("tr", "", cellsOf("th", head))>>),
             Node("tbody", "",
                  [k \in 1..Len(rows) |-> Node("tr", "", cellsOf("td", rows[k]))])>>)

\* what the task-list plugin puts in front of the text of a task item
CheckboxInput(checked) ==
  HtmlInline(IF checked
             THEN "<input class=\"task-list-item-checkbox\" checked=\"\"type=\"checkbox\">"
             ELSE "<input class=\"task-list-item-checkbox\"type=\"checkbox\">")

InlineTypes ==
  {"text", "image", "html_inline", "link", "code_inline", "checkbox_input"}

\* the tag of a block node
TagOf(n) ==
  CASE n.type = "paragraph"    -> "p"
    [] n.type = "heading"      -> "h" \o n.a
    [] n.type = "bullet_list"  -> "ul"
    [] n.type = "ordered_list" -> "ol"
    [] n.type = "list_item"    -> "li"
    [] OTHER                   -> n.type

\* renderAttrs: the class the task-list plugin set
AttrsOf(n) ==
  IF n.type \in {"bullet_list", "ordered_list"} /\ n.a = "task"
  THEN " class=\"contains-task-list\""
  ELSE IF n.type = "list_item" /\ n.a = "task"
  THEN " class=\"task-list-item enabled\""
  ELSE ""

\* escapeHtml
RECURSIVE EscapeHtml(_)
EscapeHtml(s) ==
  IF s = "" THEN ""
  ELSE (CASE Ch(s, 1) = "&"  -> "&amp;"
          [] Ch(s, 1) = "<"  -> "&lt;"
          [] Ch(s, 1) = ">"  -> "&gt;"
          [] Ch(s, 1) = "\"" -> "&quot;"
          [] OTHER           -> Ch(s, 1)) \o EscapeHtml(From(s, 2))

IsHidden(n) == n.type = "paragraph" /\ n.a = "hidden"

\* md.renderer.rules.checkbox_input
RenderCheckboxInput(n) == IF n.a = "checked" THEN "[x] " ELSE "[ ] "

\* md.renderer.render: kids from number i on; a block that follows a hidden
\* paragraph is put on a new line
RECURSIVE RenderFrom(_, _)
RenderNode(n) ==
  CASE n.type = "text"           -> EscapeHtml(n.a)
    [] n.type = "html_inline"    -> n.a
    [] n.type = "html_block"     -> n.a
    [] n.type = "checkbox_input" -> RenderCheckboxInput(n)
    [] n.type = "code_inline"    -> "<code>" \o EscapeHtml(n.a) \o "</code>"
    [] n.type = "image" ->
         "<img src=\"" \o EscapeHtml(n.a) \o "\" alt=\""
           \o EscapeHtml(n.kids[1].a) \o "\">"
    [] n.type = "link" ->
         "<a href=\"" \o EscapeHtml(n.a) \o "\">" \o RenderFrom(n.kids, 1) \o "</a>"
    [] n.type = "fence" ->
         "<pre><code>" \o EscapeHtml(n.a) \o "</code></pre>\n"
    [] n.type = "hr" -> "<hr>\n"
    [] IsHidden(n) -> RenderFrom(n.kids, 1)
    [] OTHER ->
         LET open == "<" \o TagOf(n) \o AttrsOf(n) \o ">"
             lf == /\ n.kids # <<>>
                   /\ n.kids[1].type \notin InlineTypes
                   /\ ~IsHidden(n.kids[1])
         IN  open \o (IF lf THEN "\n" ELSE "") \o RenderFrom(n.kids, 1)
               \o "</" \o TagOf(n) \o ">\n"

RenderFrom(ns, i) ==
  IF i > Len(ns) THEN ""
  ELSE (IF i > 1 /\ IsHidden(ns[i - 1]) /\ ns[i].type \notin InlineTypes
        THEN "\n" ELSE "")
         \o RenderNode(ns[i]) \o RenderFrom(ns, i + 1)

Render(ns) == RenderFrom(ns, 1)

-----------------------------------------------------------------------------
(* The Markdown file of a document.  A document is [fm, blocks]: fm is the *)
(* sequence of the front-matter's fields [key, q, val] (q the quote around *)
(* the value, "" for none), <<>> for a file without front-matter, and      *)
(* blocks is the token tree md.parse returns for the body.  MarkdownOf     *)
(* writes the file that parses to it.                                      *)

Field(key, q, val) == [key |-> key, q |-> q, val |-> val]

RECURSIVE FieldsText(_)
FieldsText(fm) ==
  IF fm = <<>> THEN ""
  ELSE LET f == Head(fm)
       IN  f.key \o ":"
             \o (IF f.q = "" /\ f.val = "" THEN "" ELSE " " \o f.q \o f.val \o f.q)
             \o "\n" \o FieldsText(Tail(fm))

RECURSIVE Repeat(_, _)
Repeat(s, n) == IF n <= 0 THEN "" ELSE s \o Repeat(s, n - 1)

RECURSIVE InlineText(_)
InlineText(kids) ==
  IF kids = <<>> THEN ""
  ELSE LET n == Head(kids)
       IN  (CASE n.type = "image" -> "![" \o n.kids[1].a \o "](" \o n.a \o ")"
              [] n.type = "link"  -> "[" \o InlineText(n.kids) \o "](" \o n.a \o ")"
              [] n.type = "code_inline" -> "%" \o n.a \o "%"
              [] n.type = "html_inline" /\ StartsWith(n.a, "<input class=\"task-list-item-checkbox\"") ->
                   IF Contains(n.a, "checked") THEN "[x]" ELSE "[ ]"
              [] OTHER -> n.a)
             \o InlineText(Tail(kids))

\* a table row: | a | b |
RECURSIVE RowText(_)
RowText(cells) ==
  IF cells = <<>> THEN "|\n"
  ELSE "| " \o InlineText(Head(cells).kids) \o " " \o RowText(Tail(cells))

RECURSIVE BlocksText(_, _, _), BlockText(_, _, _)
BlockText(n, indent, k) ==
  CASE n.type = "heading" ->
         indent \o Repeat("#", IndexOf(Digits, n.a, 1) - 1) \o " "
           \o InlineText(n.kids) \o "\n\n"
    [] n.type = "paragraph" ->
         indent \o InlineText(n.kids) \o (IF n.a = "hidden" THEN "\n" ELSE "\n\n")
    [] n.type \in {"bullet_list", "ordered_list"} ->
         BlocksText(n.kids, indent, n.type) \o "\n"
    [] n.type = "list_item" ->
         LET marker == IF k = "bullet_list" THEN "- " ELSE "1. "
             first  == IF n.kids = <<>> THEN "\n"
                       ELSE BlockText(n.kids[1], "", "")
             rest   == IF n.kids = <<>> THEN <<>> ELSE Tail(n.kids)
         IN  indent \o marker \o first
               \o BlocksText(rest, indent \o Repeat(" ", Len(marker)), "")
    [] n.type = "fence" -> indent \o "%%%\n" \o n.a \o "%%%\n\n"
    [] n.type = "hr" -> indent \o "***\n\n"
    [] n.type = "table" ->
         RowText(n.kids[1].kids[1].kids)
           \o Repeat("|---", Len(n.kids[1].kids[1].kids)) \o "|\n"
           \o Join([r \in 1..Len(n.kids[2].kids) |-> RowText(n.kids[2].kids[r].kids)])
           \o "\n"
    [] OTHER -> indent \o n.a \o "\n\n"

BlocksText(ns, indent, k) ==
  IF ns = <<>> THEN ""
  ELSE BlockText(Head(ns), indent, k) \o BlocksText(Tail(ns), indent, k)

MarkdownOf(doc) ==
  (IF doc.fm = <<>> THEN "" ELSE "---\n" \o FieldsText(doc.fm) \o "---\n\n")
    \o BlocksText(doc.blocks, "", "")

-----------------------------------------------------------------------------
(* Paths (node:path, POSIX).                                               *)

\* the segments of p between "/", from position i on
RECURSIVE Segments(_, _)
Segments(p, i) ==
  IF i > Len(p) THEN <<>>
  ELSE LET segment(e) ==
             (IF e > i THEN <<SubSeq(p, i, e - 1)>> ELSE <<>>)
               \o Segments(p, e + 1)
       IN  segment(Until(p, "/", i))

\* the segments with "." dropped and ".." resolved; out is the result so far
RECURSIVE Resolve(_, _, _)
Resolve(segs, out, abs) ==
  IF segs = <<>> THEN out
  ELSE Resolve(Tail(segs),
               IF Head(segs) = "." THEN out
               ELSE IF Head(segs) = ".."
               THEN IF out # <<>> /\ out[Len(out)] # ".."
                    THEN SubSeq(out, 1, Len(out) - 1)
                    ELSE IF abs THEN out ELSE Append(out, "..")
               ELSE Append(out, Head(segs)),
               abs)

PathIsAbsolute(p) == StartsWith(p, "/")

\* path.normalize
PathNormalize(p) ==
  LET normal(abs, body, slash) ==
        IF abs THEN "/" \o body \o (IF body # "" THEN slash ELSE "")
        ELSE IF body = "" THEN "." ELSE body \o slash
  IN  normal(PathIsAbsolute(p),
             JoinWith(Resolve(Segments(p, 1), <<>>, PathIsAbsolute(p)), "/"),
             IF Ch(p, Len(p)) = "/" THEN "/" ELSE "")

\* path.join(a, b)
PathJoin(a, b) ==
  IF a = "" THEN PathNormalize(b)
  ELSE IF b = "" THEN PathNormalize(a)
  ELSE PathNormalize(a \o "/" \o b)

\* path.dirname
PathDirname(p) ==
  LET dirname(dir) ==
        IF PathIsAbsolute(p) THEN "/" \o dir
        ELSE IF dir = "" THEN "." ELSE dir
      front(segs) == dirname(JoinWith(SubSeq(segs, 1, Len(segs) - 1), "/"))
  IN  front(Segments(p, 1))

\* path.basename
PathBasename(p) ==
  LET last(segs) == IF segs = <<>> THEN "" ELSE segs[Len(segs)]
  IN  last(Segments(p, 1))

\* a guess that never looks at the path
AlwaysFallback(p, fallback) == fallback

guessFilename(p, fallback) ==
  IF p = "" THEN fallback
  ELSE LET named(base) ==
             IF base # "" /\ base # "." /\ base # "/" THEN base ELSE fallback
       IN  named(PathBasename(p))

IsRemote(src) == StartsWith(src, "http://") \/ StartsWith(src, "https://")

\* handleImageToken: the file read for a local reference
ResolvedPath(src, baseDir) ==
  IF PathIsAbsolute(src) THEN src ELSE PathJoin(baseDir, src)

\* handleImageToken: the filename sent with the upload
ImageFilename(src, baseDir) ==
  IF IsRemote(src) THEN "img.jpg"
  ELSE guessFilename(ResolvedPath(src, baseDir), "img.jpg")

\* uploadThumbMediaId: the filename sent with the upload
ThumbFilename(file) ==
  IF file # "" THEN guessFilename(file, "cover.jpg") ELSE "cover.jpg"

-----------------------------------------------------------------------------
(* The walk of rewriteImageTokens over the token tree.  A position is the  *)
(* sequence of indices leading to a node; <<>> is the end of the walk.     *)

RECURSIVE NodeAt(_, _)
NodeAt(ns, p) ==
  IF Len(p) = 1 THEN ns[p[1]] ELSE NodeAt(ns[p[1]].kids, Tail(p))

Front(p) == SubSeq(p, 1, Len(p) - 1)

\* the list the node at p is an element of
SiblingsAt(ns, p) == IF Len(p) = 1 THEN ns ELSE NodeAt(ns, Front(p)).kids

\* the loop of walk goes on: the next element of the list, or of the list
\* of the call that walked this one
RECURSIVE Over(_, _)
Over(ns, p) ==
  IF p = <<>> THEN <<>>
  ELSE IF p[Len(p)] < Len(SiblingsAt(ns, p))
       THEN [p EXCEPT ![Len(p)] = @ + 1]
       ELSE Over(ns, Front(p))

\* a walk that never goes into the children of a node
NextPathFlat(ns, p) == Over(ns, p)

\* walk, after the node at p was looked at: its children first, if any
NextPath(ns, p) ==
  IF NodeAt(ns, p).kids # <<>> THEN p \o <<1>> ELSE Over(ns, p)

FirstPath(ns) == IF ns = <<>> THEN <<>> ELSE <<1>>

\* t.attrSet("src", url) for the node at p
RECURSIVE SetSrc(_, _, _)
SetSrc(ns, p, url) ==
  IF Len(p) = 1 THEN [ns EXCEPT ![p[1]].a = url]
  ELSE [ns EXCEPT ![p[1]].kids = SetSrc(@, Tail(p), url)]

\* the positions of the nodes of a tree, in the order the walk takes them
RECURSIVE WalkOrder(_, _)
WalkOrder(ns, p) ==
  IF p = <<>> THEN <<>> ELSE <<p>> \o WalkOrder(ns, NextPath(ns, p))

\* crypto.subtle.digest("SHA-256", bytes), in hex: collision-free, so a
\* payload is modelled as its own fingerprint under a tag
Sha256Hex(b) == "sha256:" \o b

\* a cache that never answers
CacheGetNothing(c, h) == ""

\* cache.get(h): "" stands for undefined
CacheGet(c, h) ==
  IF \E e \in c : e.h = h THEN (CHOOSE e \in c : e.h = h).url ELSE ""

\* cache.set(h, url)
CacheSet(c, h, url) == {e \in c : e.h # h} \cup {[h |-> h, url |-> url]}

-----------------------------------------------------------------------------
(* The run of one command.                                                 *)

\* what the platform, the network and the disk may answer
TokenResponses  == {"ok", "errcode", "empty", "http"}
UploadResponses == {"ok", "errcode", "empty", "http"}
DraftResponses  == {"ok", "errcode", "empty", "http"}
JsonResponses   == {"ok", "errcode", "http"}
\* the payloads a fetch may return; "ERR" in imgLog marks a failed fetch
Payloads == {"", "P", "Q"}

\* the URL the platform gives to the n-th upload
WxUrl(n) == "https://mmbiz.qpic.cn/" \o NumberToString(n)

\* the endpoints
TokenEndpoint    == "cgi-bin/token"
MaterialEndpoint == "cgi-bin/material/add_material"
UploadEndpoint   == "cgi-bin/media/uploadimg"
PublishEndpoint  == "cgi-bin/freepublish/submit"
\* a draft command that submits for publication
SubmitInstead    == "cgi-bin/freepublish/submit"
DraftEndpoint    == "cgi-bin/draft/add"
StatusEndpoint   == "cgi-bin/freepublish/get"

Call(ep, arg, resp) == [ep |-> ep, arg |-> arg, resp |-> resp]

NoErr == [kind |-> "", src |-> "", cause |-> ""]
NoSnap == [cache |-> {}, uploaded |-> <<>>, ncalls |-> 0]

\* the digest length when --digest-n is not given
DefaultDigestN == 120

\* Number(s) for the decimal numerals, with or without a sign
RECURSIVE NumberOfDigits(_, _)
NumberOfDigits(s, acc) ==
  IF s = "" THEN acc
  ELSE NumberOfDigits(From(s, 2), acc * 10 + IndexOf(Digits, Ch(s, 1), 1) - 1)

NumberOfString(s) ==
  IF StartsWith(s, "-") THEN 0 - NumberOfDigits(From(s, 2), 0)
  ELSE NumberOfDigits(s, 0)

\* Number(digestN || 120)
DigestLength(digestN) ==
  IF digestN = "" THEN DefaultDigestN ELSE NumberOfString(digestN)

\* a check that lets every payload through
NeverEmptyPayload(b) == FALSE

\* !bytes || bytes.length === 0
IsEmptyPayload(b) == Len(b) = 0

draftVars == <<mdText, tokens, path, bytes, filename, cache, uploaded, imgLog,
               snap, finalTitle, dg, contentHTML, stageLog, draftReq>>
walkVars  == <<path, bytes, filename, cache, uploaded, imgLog, snap>>
tailVars  == <<finalTitle, dg, contentHTML, stageLog, draftReq>>

\* the state of a command that has not started
Blank ==
  /\ pc = "start"
  /\ exitCode = -1
  /\ errMsg = NoErr
  /\ token = ""
  /\ calls = <<>>
  /\ mdText = ""
  /\ tokens = <<>>
  /\ path = <<>>
  /\ bytes = ""
  /\ filename = ""
  /\ cache = {}
  /\ uploaded = <<>>
  /\ imgLog = <<>>
  /\ snap = NoSnap
  /\ finalTitle = ""
  /\ dg = ""
  /\ contentHTML = ""
  /\ stageLog = <<>>
  /\ draftReq = [title |-> "", digest |-> "", content |-> ""]

\* an exit whose message leaves the image reference out
ExitUnnamed(code, kind, src, cause) ==
  /\ exitCode' = code
  /\ errMsg' = [kind |-> kind, src |-> "", cause |-> cause]
  /\ pc' = "exit"

\* process.exit(code) after console.error, and fatal(err) for code 1
Exit(code, kind, src, cause) ==
  /\ exitCode' = code
  /\ errMsg' = [kind |-> kind, src |-> src, cause |-> cause]
  /\ pc' = "exit"

\* the command returns
Return ==
  /\ exitCode' = 0
  /\ errMsg' = errMsg
  /\ pc' = "exit"

\* a check of the response that looks at the HTTP status only
ResponseErrorHttpOnly(resp, errcodeKind, emptyKind) ==
  IF resp = "http" THEN "http" ELSE ""

\* the error a multipart or JSON call throws for a response, "" for none:
\* httpJSON / multipartUpload throw on a bad status, the caller on errcode
\* and on a missing field
ResponseError(resp, errcodeKind, emptyKind) ==
  CASE resp = "http"    -> "http"
    [] resp = "errcode" -> errcodeKind
    [] resp = "empty"   -> emptyKind
    [] OTHER            -> ""

\* the first statements of a command: its arguments, then mustEnv
CheckArgs ==
  /\ pc = "start"
  /\ IF \/ cmd = "upload-thumb" /\ ((opts.file = "") = (opts.url = ""))
        \/ cmd = "draft" /\ (opts.mdFile = "" \/ opts.thumbMediaId = "")
        \/ cmd = "publish" /\ opts.mediaId = ""
        \/ cmd = "status" /\ opts.publishId = ""
     THEN Exit(2, "args", "", "")
     ELSE IF ~opts.env
     THEN Exit(1, "missing env", "", "")
     ELSE /\ pc' = "token"
          /\ UNCHANGED <<exitCode, errMsg>>
  /\ UNCHANGED <<cmd, opts, token, calls>>
  /\ UNCHANGED draftVars

\* getAccessToken
GetAccessToken ==
  /\ pc = "token"
  /\ \E resp \in TokenResponses :
       \E err \in {ResponseError(resp, "token err", "empty access_token")} :
           /\ calls' = Append(calls, Call(TokenEndpoint, "", resp))
           /\ IF err # ""
              THEN Exit(1, err, "", "") /\ token' = token
              ELSE /\ token' = "TOKEN"
                   /\ pc' = IF cmd = "draft" THEN "read" ELSE cmd
                   /\ UNCHANGED <<exitCode, errMsg>>
  /\ UNCHANGED <<cmd, opts>>
  /\ UNCHANGED draftVars

\* cmdUploadThumb / uploadThumbMediaId: read or download, then add_material
UploadThumb ==
  /\ pc = "upload-thumb"
  /\ \E got \in Payloads \cup {"ERR"}, resp \in UploadResponses :
       \E err \in {ResponseError(resp, "wechat err", "empty media_id")} :
           IF got = "ERR"
           THEN Exit(1, "read failed", "", "") /\ calls' = calls
           ELSE /\ calls' = Append(calls,
                      Call(MaterialEndpoint,
                           [filename |-> ThumbFilename(opts.file), bytes |-> got],
                           resp))
                /\ IF err # "" THEN Exit(1, err, "", "") ELSE Return
  /\ UNCHANGED <<cmd, opts, token>>
  /\ UNCHANGED draftVars

\* cmdPublish
Publish ==
  /\ pc = "publish"
  /\ \E resp \in JsonResponses :
       \E err \in {ResponseError(resp, "publish err", "")} :
           /\ calls' = Append(calls, Call(PublishEndpoint, opts.mediaId, resp))
           /\ IF err # "" THEN Exit(1, err, "", "") ELSE Return
  /\ UNCHANGED <<cmd, opts, token>>
  /\ UNCHANGED draftVars

\* cmdStatus
Status ==
  /\ pc = "status"
  /\ \E resp \in JsonResponses :
       \E err \in {ResponseError(resp, "status err", "")} :
           /\ calls' = Append(calls, Call(StatusEndpoint, opts.publishId, resp))
           /\ IF err # "" THEN Exit(1, err, "", "") ELSE Return
  /\ UNCHANGED <<cmd, opts, token>>
  /\ UNCHANGED draftVars

\* a draft command that looks for the title before it rewrites the images
ReadThenTitle ==
  /\ pc = "read"
  /\ mdText' = MarkdownOf(opts.doc)
  /\ tokens' = opts.doc.blocks
  /\ path' = FirstPath(opts.doc.blocks)
  /\ pc' = "title"
  /\ UNCHANGED <<cmd, opts, exitCode, errMsg, token, calls, bytes, filename,
                 cache, uploaded, imgLog, snap>>
  /\ UNCHANGED tailVars

\* cmdDraft: read the file, parse it, enter rewriteImageTokens
ReadAndParse ==
  /\ pc = "read"
  /\ \E ok \in BOOLEAN :
       IF ok
       THEN /\ mdText' = MarkdownOf(opts.doc)
            /\ tokens' = opts.doc.blocks
            /\ path' = FirstPath(opts.doc.blocks)
            /\ pc' = "walk"
            /\ UNCHANGED <<exitCode, errMsg>>
       ELSE /\ Exit(1, "read failed", "", "")
            /\ UNCHANGED <<mdText, tokens, path>>
  /\ UNCHANGED <<cmd, opts, token, calls, bytes, filename, cache, uploaded,
                 imgLog, snap>>
  /\ UNCHANGED tailVars

IsImage(n) == n.type = "image"

\* t.attrGet("src"), trimmed
SrcAt(ns, p) == Trim(NodeAt(ns, p).a)

\* walk: a node that is no image
WalkNode ==
  /\ pc = "walk"
  /\ path # <<>>
  /\ ~IsImage(NodeAt(tokens, path))
  /\ path' = NextPath(tokens, path)
  /\ UNCHANGED <<cmd, opts, pc, exitCode, errMsg, token, calls, mdText, tokens,
                 bytes, filename, cache, uploaded, imgLog, snap>>
  /\ UNCHANGED tailVars

\* handleImageToken: no src, nothing to do
ImgSkip ==
  /\ pc = "walk"
  /\ path # <<>>
  /\ IsImage(NodeAt(tokens, path))
  /\ SrcAt(tokens, path) = ""
  /\ path' = NextPath(tokens, path)
  /\ UNCHANGED <<cmd, opts, pc, exitCode, errMsg, token, calls, mdText, tokens,
                 bytes, filename, cache, uploaded, imgLog, snap>>
  /\ UNCHANGED tailVars

\* handleImageToken: download or read the image
ImgFetch ==
  /\ pc = "walk"
  /\ path # <<>>
  /\ IsImage(NodeAt(tokens, path))
  /\ SrcAt(tokens, path) # ""
  /\ \E src \in {SrcAt(tokens, path)}, got \in Payloads \cup {"ERR"} :
           /\ imgLog' = Append(imgLog, [path |-> path, src |-> src, got |-> got])
           /\ snap' = [cache |-> cache, uploaded |-> uploaded, ncalls |-> Len(calls)]
           /\ IF got = "ERR"
              THEN /\ Exit(1, "image read failed", src, "")
                   /\ UNCHANGED <<bytes, filename>>
              ELSE /\ bytes' = got
                   /\ filename' = ImageFilename(src, PathDirname(opts.mdFile))
                   /\ pc' = "fetched"
                   /\ UNCHANGED <<exitCode, errMsg>>
  /\ UNCHANGED <<cmd, opts, token, calls, mdText, tokens, path, cache, uploaded>>
  /\ UNCHANGED tailVars

\* handleImageToken: an empty payload
ImgEmpty ==
  /\ pc = "fetched"
  /\ IsEmptyPayload(bytes)
  /\ Exit(1, "image is empty", SrcAt(tokens, path), "")
  /\ UNCHANGED <<cmd, opts, token, calls, mdText, tokens>>
  /\ UNCHANGED walkVars
  /\ UNCHANGED tailVars

\* handleImageToken: the fingerprint is in the cache
ImgCacheHit ==
  /\ pc = "fetched"
  /\ ~IsEmptyPayload(bytes)
  /\ CacheGet(cache, Sha256Hex(bytes)) # ""
  /\ tokens' = SetSrc(tokens, path, CacheGet(cache, Sha256Hex(bytes)))
  /\ path' = NextPath(tokens, path)
  /\ pc' = "walk"
  /\ UNCHANGED <<cmd, opts, exitCode, errMsg, token, calls, mdText, bytes,
                 filename, cache, uploaded, imgLog, snap>>
  /\ UNCHANGED tailVars

\* handleImageToken: the fingerprint is new, uploadContentImageUrl
ImgUpload ==
  /\ pc = "fetched"
  /\ ~IsEmptyPayload(bytes)
  /\ CacheGet(cache, Sha256Hex(bytes)) = ""
  /\ \E resp \in UploadResponses :
       \E err \in {ResponseError(resp, "wechat err", "empty url from uploadimg")},
          wxUrl \in {WxUrl(Len(uploaded) + 1)} :
           /\ calls' = Append(calls,
                 Call(UploadEndpoint, [filename |-> filename, bytes |-> bytes], resp))
           /\ IF err # ""
              THEN /\ Exit(1, "image upload failed", SrcAt(tokens, path), err)
                   /\ UNCHANGED <<tokens, path, cache, uploaded>>
              ELSE /\ cache' = CacheSet(cache, Sha256Hex(bytes), wxUrl)
                   /\ uploaded' = Append(uploaded, wxUrl)
                   /\ tokens' = SetSrc(tokens, path, wxUrl)
                   /\ path' = NextPath(tokens, path)
                   /\ pc' = "walk"
                   /\ UNCHANGED <<exitCode, errMsg>>
  /\ UNCHANGED <<cmd, opts, token, mdText, bytes, filename, imgLog, snap>>
  /\ UNCHANGED tailVars

\* rewriteImageTokens returns
WalkDone ==
  /\ pc = "walk"
  /\ path = <<>>
  /\ pc' = "title"
  /\ UNCHANGED <<cmd, opts, exitCode, errMsg, token, calls, mdText, tokens>>
  /\ UNCHANGED walkVars
  /\ UNCHANGED tailVars

\* cmdDraft: the title
ResolveTitle ==
  /\ pc = "title"
  /\ \E t \in {resolveTitle(opts.title, mdText)} :
         IF t = ""
         THEN Exit(2, "missing title", "", "") /\ finalTitle' = finalTitle
         ELSE /\ finalTitle' = t
              /\ pc' = "digest"
              /\ UNCHANGED <<exitCode, errMsg>>
  /\ UNCHANGED <<cmd, opts, token, calls, mdText, tokens, dg, contentHTML,
                 stageLog, draftReq>>
  /\ UNCHANGED walkVars

\* cmdDraft: the digest
Digest ==
  /\ pc = "digest"
  /\ dg' = IF Trim(opts.digest) = "" /\ opts.digestAuto
           THEN autoDigestFromMarkdown(mdText, DigestLength(opts.digestN))
           ELSE Trim(opts.digest)
  /\ pc' = "render"
  /\ UNCHANGED <<cmd, opts, exitCode, errMsg, token, calls, mdText, tokens,
                 finalTitle, contentHTML, stageLog, draftReq>>
  /\ UNCHANGED walkVars

\* cmdDraft: md.renderer.render(tokens2, ...)
RenderHTML ==
  /\ pc = "render"
  /\ contentHTML' = Render(tokens)
  /\ pc' = "stages"
  /\ UNCHANGED <<cmd, opts, exitCode, errMsg, token, calls, mdText, tokens,
                 finalTitle, dg, stageLog, draftReq>>
  /\ UNCHANGED walkVars

\* the rewrites with the lists converted before their items are cleaned
StagesReordered ==
  <<"stripTaskListInputs", "replaceTables", "replaceHr", "stripLinks",
    "flattenListItemParagraphs", "convertListsToParagraphs",
    "removeEmptyListItems", "convertHeadings", "styleParagraphs",
    "applyTheme">>

\* cmdDraft: the rewrites of contentHTML, in the order of the statements
Stages ==
  <<"stripTaskListInputs", "replaceTables", "replaceHr", "stripLinks",
    "flattenListItemParagraphs", "removeEmptyListItems",
    "convertListsToParagraphs", "convertHeadings", "styleParagraphs",
    "applyTheme">>

StageFn(name, html) ==
  CASE name = "stripTaskListInputs"       -> stripTaskListInputs(html)
    [] name = "replaceTables"             -> replaceTables(html)
    [] name = "replaceHr"                 -> replaceHr(html)
    [] name = "stripLinks"                -> stripLinks(html)
    [] name = "flattenListItemParagraphs" -> flattenListItemParagraphs(html)
    [] name = "removeEmptyListItems"      -> removeEmptyListItems(html)
    [] name = "convertListsToParagraphs"  -> convertListsToParagraphs(html)
    [] name = "convertHeadings"           -> convertHeadings(html)
    [] name = "styleParagraphs"           -> styleParagraphs(html)
    [] name = "applyTheme"                -> applyTheme(html)

\* cmdDraft: the next statement contentHTML = f(contentHTML)
ApplyStage ==
  /\ pc = "stages"
  /\ \E k \in {Len(stageLog) + 1} :
         /\ contentHTML' = StageFn(Stages[k], contentHTML)
         /\ stageLog' = Append(stageLog, Stages[k])
         /\ pc' = IF k = Len(Stages) THEN "dump" ELSE "stages"
  /\ UNCHANGED <<cmd, opts, exitCode, errMsg, token, calls, mdText, tokens,
                 finalTitle, dg, draftReq>>
  /\ UNCHANGED walkVars

\* cmdDraft: --dump-html prints and returns
DumpHtml ==
  /\ pc = "dump"
  /\ opts.dumpHtml
  /\ Return
  /\ UNCHANGED <<cmd, opts, token, calls>>
  /\ UNCHANGED draftVars

\* cmdDraft: draft/add
DraftAdd ==
  /\ pc = "dump"
  /\ ~opts.dumpHtml
  /\ draftReq' = [title |-> finalTitle, digest |-> dg, content |-> contentHTML]
  /\ \E resp \in DraftResponses :
       \E err \in {ResponseError(resp, "draft add err", "draft add: empty media_id")} :
           /\ calls' = Append(calls, Call(DraftEndpoint, draftReq', resp))
           /\ IF err # "" THEN Exit(1, err, "", "") ELSE Return
  /\ UNCHANGED <<cmd, opts, token, mdText, tokens, finalTitle, dg, contentHTML,
                 stageLog>>
  /\ UNCHANGED walkVars

-----------------------------------------------------------------------------
(* The command lines and the files the runs start from.                    *)

EmptyDoc == [fm |-> <<>>, blocks |-> <<>>]

\* the options of a command line that gives none
NoOpts ==
  [file |-> "", url |-> "", mdFile |-> "", thumbMediaId |-> "", title |-> "",
   digest |-> "", digestAuto |-> FALSE, digestN |-> "120", dumpHtml |-> FALSE,
   doc |-> EmptyDoc, mediaId |-> "", publishId |-> "", env |-> TRUE]

\* the image references of the documents: none, relative, absolute, remote
ImageRefs == {"", "a.png", "/r/b.png", "https://h/c.png"}

SrcSeqs == UNION {[1..k -> ImageRefs] : k \in 0..MaxImages}

\* a document with one paragraph per image, under a level-1 heading
ImageDoc(srcs) ==
  [fm |-> <<>>,
   blocks |-> <<Heading("1", <<Text("T")>>)>>
                \o [k \in 1..Len(srcs) |-> Paragraph(<<Text("x"), Image(srcs[k], "i")>>)]]

\* an image inside a list item, before an image of a later paragraph
NestedImageDoc ==
  [fm |-> <<>>,
   blocks |-> <<Heading("1", <<Text("T")>>),
                BulletList("", <<ListItem("", <<Paragraph(<<Text("x"), Image("a.png", "i")>>)>>)>>),
                Paragraph(<<Image("/r/b.png", "j")>>)>>]

\* images in a document that has no title
UntitledImageDoc ==
  [fm |-> <<>>,
   blocks |-> <<Paragraph(<<Text("x"), Image("a.png", "i")>>),
                Paragraph(<<Image("/r/b.png", "j")>>)>>]

ImageDocs ==
  {ImageDoc(srcs) : srcs \in SrcSeqs} \cup {NestedImageDoc, UntitledImageDoc}

\* the front-matters of the documents
FrontMatters ==
  {<<>>,
   <<Field("title", "\"", "Foo")>>,
   <<Field("author", "", "b"), Field("title", "", "Foo bar")>>,
   <<Field("title", "\"", "")>>,
   <<Field("title", "", ""), Field("author", "", "b")>>,
   <<Field("author", "", "b")>>}

\* bodies with and without a level-1 heading
TitleBodies ==
  {<<Heading("1", <<Text("H")>>), Paragraph(<<Text("x")>>)>>,
   <<Heading("2", <<Text("S")>>), Paragraph(<<Text("x")>>),
     Heading("1", <<Text("H")>>), Heading("1", <<Text("G")>>)>>,
   <<Paragraph(<<Text("x")>>)>>,
   <<Heading("2", <<Text("S")>>)>>,
   <<Paragraph(<<Text("x")>>), Fence("# c\n")>>}

TitleDocs == {[fm |-> f, blocks |-> b] : f \in FrontMatters, b \in TitleBodies}

ItemName(k) == "i" \o NumberToString(k)

\* a tight list of n items; inner, when not <<>>, is nested in the last item
ListOf(type, n, inner) ==
  Node(type, "",
       [k \in 1..n |->
          ListItem("", <<Hidden(<<Text(ItemName(k))>>)>>
                         \o (IF k = n THEN inner ELSE <<>>))])

\* the lists nested at most d deep
RECURSIVE Lists(_)
Lists(d) ==
  LET inners == {<<>>} \cup (IF d > 1 THEN {<<l>> : l \in Lists(d - 1)} ELSE {})
  IN  {ListOf(type, n, inner) :
         type \in {"bullet_list", "ordered_list"}, n \in 1..MaxItems,
         inner \in inners}

TaskItem(checked, text) ==
  ListItem("task", <<Hidden(<<CheckboxInput(checked), Text(text)>>)>>)

\* bodies for the rewrites of the rendered HTML
FormatBodies ==
  {<<l>> : l \in Lists(MaxDepth)} \cup
  {<<BulletList("task", <<TaskItem(TRUE, " done"), TaskItem(FALSE, " todo")>>)>>,
   <<OrderedList("task", <<TaskItem(FALSE, " todo")>>), Paragraph(<<Text("y")>>)>>,
   <<Paragraph(<<Text("x"), HtmlInline("<input type=\"text\">")>>)>>,
   <<Paragraph(<<HtmlInline("<INPUT checked type=\"checkbox\" >"), Text("x")>>)>>,
   <<BulletList("", <<ListItem("", <<Paragraph(<<Text("a")>>)>>),
                      ListItem("", <<>>),
                      ListItem("", <<Paragraph(<<Text("b")>>)>>)>>)>>,
   <<Table(<<"a", "b">>, <<<<"1", "2">>>>), Hr,
     Paragraph(<<Link("https://h/", <<Text("l")>>), CodeInline("c")>>)>>,
   <<Heading("2", <<Text("S")>>), Heading("3", <<Text("s")>>),
     Node("blockquote", "", <<Paragraph(<<Text("q")>>)>>)>>}

FormatDocs ==
  {[fm |-> <<>>, blocks |-> <<Heading("1", <<Text("H")>>)>> \o b] : b \in FormatBodies}

\* --digest, --digest-auto, --digest-n
DigestChoices ==
  {[digest |-> "", digestAuto |-> TRUE, digestN |-> "120"],
   [digest |-> "", digestAuto |-> TRUE, digestN |-> "2"],
   [digest |-> " d ", digestAuto |-> TRUE, digestN |-> "120"],
   [digest |-> "", digestAuto |-> FALSE, digestN |-> "120"]}

DraftOpts(f, m, e, t, d, h, doc) ==
  [NoOpts EXCEPT !.mdFile = f, !.thumbMediaId = m, !.env = e, !.title = t,
                 !.digest = d.digest, !.digestAuto = d.digestAuto,
                 !.digestN = d.digestN, !.dumpHtml = h, !.doc = doc]

AutoDigest == [digest |-> "", digestAuto |-> TRUE, digestN |-> "120"]

\* the draft command lines
DraftRuns ==
  {DraftOpts(f, m, e, "", AutoDigest, FALSE, ImageDoc(<<"a.png">>)) :
     f \in {"", "d/a.md"}, m \in {"", "M"}, e \in BOOLEAN} \cup
  {DraftOpts("d/a.md", "M", TRUE, "", AutoDigest, h, doc) :
     h \in BOOLEAN, doc \in ImageDocs} \cup
  {DraftOpts("a.md", "M", TRUE, t, d, FALSE, doc) :
     t \in {"", " ", " T "}, d \in DigestChoices, doc \in TitleDocs} \cup
  {DraftOpts("a.md", "M", TRUE, "", AutoDigest, FALSE, doc) : doc \in FormatDocs}

UploadThumbRuns ==
  {[NoOpts EXCEPT !.file = f, !.url = u, !.env = e] :
     f \in {"", "c/cover.png", "/"}, u \in {"", "https://h/c.png"}, e \in BOOLEAN}

PublishRuns ==
  {[NoOpts EXCEPT !.mediaId = m, !.env = e] : m \in {"", "MID"}, e \in BOOLEAN}

StatusRuns ==
  {[NoOpts EXCEPT !.publishId = i, !.env = e] : i \in {"", "PID"}, e \in BOOLEAN}

Init ==
  /\ \/ cmd = "draft" /\ opts \in DraftRuns
     \/ cmd = "upload-thumb" /\ opts \in UploadThumbRuns
     \/ cmd = "publish" /\ opts \in PublishRuns
     \/ cmd = "status" /\ opts \in StatusRuns
  /\ Blank

Next ==
  \/ CheckArgs
  \/ GetAccessToken
  \/ UploadThumb
  \/ Publish
  \/ Status
  \/ ReadAndParse
  \/ WalkNode
  \/ ImgSkip
  \/ ImgFetch
  \/ ImgEmpty
  \/ ImgCacheHit
  \/ ImgUpload
  \/ WalkDone
  \/ ResolveTitle
  \/ Digest
  \/ RenderHTML
  \/ ApplyStage
  \/ DumpHtml
  \/ DraftAdd

Spec == Init /\ [][Next]_vars

-----------------------------------------------------------------------------
(* autoDigestFromMarkdown on its own: the texts are built from pieces that *)
(* the function treats differently, the lengths run around zero.           *)

DigestPieces ==
  {"a", "b c", " ", "\n", "^~", "^", "~", "# ", "%c%", "[l](u)", "![i](u)",
   "<b>", "...", "---\n"}

RECURSIVE TextsOf(_)
TextsOf(k) ==
  IF k = 0 THEN {""}
  ELSE TextsOf(k - 1) \cup {t \o piece : t \in TextsOf(k - 1), piece \in DigestPieces}

DigestTexts == TextsOf(MaxSegs)

\* the numerals of -1 .. MaxN
DigestNumerals == {"-1"} \cup {NumberToString(n) : n \in 0..MaxN}

InitDigest ==
  /\ cmd = "autoDigestFromMarkdown"
  /\ opts \in {[NoOpts EXCEPT !.digestAuto = TRUE, !.digestN = n] : n \in DigestNumerals}
  /\ pc = "call"
  /\ mdText \in DigestTexts
  /\ exitCode = -1
  /\ errMsg = NoErr
  /\ token = ""
  /\ calls = <<>>
  /\ tokens = <<>>
  /\ path = <<>>
  /\ bytes = ""
  /\ filename = ""
  /\ cache = {}
  /\ uploaded = <<>>
  /\ imgLog = <<>>
  /\ snap = NoSnap
  /\ finalTitle = ""
  /\ dg = ""
  /\ contentHTML = ""
  /\ stageLog = <<>>
  /\ draftReq = [title |-> "", digest |-> "", content |-> ""]

\* dg = autoDigestFromMarkdown(mdText, Number(digestN || 120))
CallAutoDigest ==
  /\ pc = "call"
  /\ dg' = autoDigestFromMarkdown(mdText, DigestLength(opts.digestN))
  /\ pc' = "return"
  /\ UNCHANGED <<cmd, opts, exitCode, errMsg, token, calls, mdText, tokens,
                 finalTitle, contentHTML, stageLog, draftReq>>
  /\ UNCHANGED walkVars

NextDigest == CallAutoDigest

SpecDigest == InitDigest /\ [][NextDigest]_vars

-----------------------------------------------------------------------------
(* Properties.                                                             *)

LastOf(q) == q[Len(q)]

RangeOf(q) == {q[k] : k \in 1..Len(q)}

IsPrefixOf(a, b) == Len(a) <= Len(b) /\ SubSeq(b, 1, Len(a)) = a

\* the calls made to an endpoint, by their numbers
CallsTo(ep) == {k \in 1..Len(calls) : calls[k].ep = ep}

\* rewriteImageTokens has returned
WalkFinished ==
  /\ cmd = "draft"
  /\ pc \notin {"start", "token", "read", "walk", "fetched"}
  /\ tokens # <<>>
  /\ path = <<>>

\* the images whose payload was fetched and was not empty, by their numbers
\* in the log of the walk
Fetched == {k \in 1..Len(imgLog) : imgLog[k].got \notin {"ERR", ""}}

\* the src an image of the log has now
SrcNow(k) == NodeAt(tokens, imgLog[k].path).a

\* C1: within one conversion the upload endpoint is called once per distinct
\* content fingerprint: no two upload calls carry the same bytes, and when
\* the walk has finished the number of upload calls and the length of the
\* uploaded-URL list both equal the number of distinct fingerprints, and
\* two images with identical bytes carry the same platform URL.
OneUploadPerFingerprint ==
  /\ \A i, j \in CallsTo("cgi-bin/media/uploadimg") :
       calls[i].arg.bytes = calls[j].arg.bytes => i = j
  /\ WalkFinished =>
       /\ Len(uploaded) = Cardinality({imgLog[k].got : k \in Fetched})
       /\ Cardinality(CallsTo("cgi-bin/media/uploadimg")) = Len(uploaded)
       /\ \A k \in Fetched : SrcNow(k) \in RangeOf(uploaded)
       /\ \A i, j \in Fetched :
            imgLog[i].got = imgLog[j].got => SrcNow(i) = SrcNow(j)

\* two images, different references, identical bytes, one upload
TwoReferencesOneUpload ==
  /\ WalkFinished
  /\ Len(uploaded) = 1
  /\ \E i, j \in Fetched :
       /\ imgLog[i].src # imgLog[j].src
       /\ imgLog[i].got = imgLog[j].got
       /\ SrcNow(i) = uploaded[1]
       /\ SrcNow(j) = uploaded[1]

\* the fetch, the emptiness check or the upload of an image has failed
ImageFailed ==
  \/ imgLog # <<>> /\ LastOf(imgLog).got = "ERR"
  \/ imgLog # <<>> /\ LastOf(imgLog).got = "" /\ pc # "fetched"
  \/ \E k \in CallsTo("cgi-bin/media/uploadimg") : calls[k].resp # "ok"

\* C2: when the fetch, the emptiness check or the upload of an image fails,
\* the draft command is over in the error state, the error names the source
\* reference of that image, the walk has not gone past it, no transform ran
\* and draft/add was not called.
ImageFailureAborts ==
  ImageFailed =>
    /\ pc = "exit"
    /\ exitCode = 1
    /\ errMsg.kind \in {"image read failed", "image is empty", "image upload failed"}
    /\ LastOf(imgLog).path = path
    /\ errMsg.src = Trim(NodeAt(opts.doc.blocks, path).a)
    /\ stageLog = <<>>
    /\ CallsTo("cgi-bin/draft/add") = {}

\* the first of two images fails, the second is never looked at
FirstImageFailed ==
  /\ ImageFailed
  /\ pc = "exit"
  /\ Len(opts.doc.blocks) = 3
  /\ path = <<2, 2>>
  /\ Len(imgLog) = 1
  /\ Trim(opts.doc.blocks[3].kids[2].a) # ""

\* C4: a draft run never calls freepublish/submit; the endpoint is called
\* by the publish command only, at most once in a run, with the media id
\* given on the command line.
DraftNeverPublishes ==
  /\ cmd # "publish" => CallsTo("cgi-bin/freepublish/submit") = {}
  /\ Cardinality(CallsTo("cgi-bin/freepublish/submit")) <= 1
  /\ \A k \in CallsTo("cgi-bin/freepublish/submit") : calls[k].arg = opts.mediaId

\* a draft was created, and nothing was published
DraftCreated ==
  /\ cmd = "draft"
  /\ pc = "exit"
  /\ exitCode = 0
  /\ \E k \in CallsTo("cgi-bin/draft/add") : calls[k].resp = "ok"

\* the order of the transforms
TransformOrder ==
  <<"stripTaskListInputs", "replaceTables", "replaceHr", "stripLinks",
    "flattenListItemParagraphs", "removeEmptyListItems",
    "convertListsToParagraphs", "convertHeadings", "styleParagraphs",
    "applyTheme">>

\* the transforms run so far are the first of the order, they began after
\* the image rewriting, and what is handed to draft/add is the outcome of
\* all ten
TransformsInOrder ==
  /\ IsPrefixOf(stageLog, TransformOrder)
  /\ pc = "stages" => Len(stageLog) < 10
  /\ pc = "dump" => stageLog = TransformOrder
  /\ stageLog # <<>> =>
       /\ WalkFinished
       /\ \A k \in Fetched : SrcNow(k) \in RangeOf(uploaded)
  /\ \A k \in CallsTo("cgi-bin/draft/add") :
       /\ stageLog = TransformOrder
       /\ calls[k].arg.content = contentHTML

\* a step that changes the HTML turns it into what the next transform of
\* the order makes of it, or is the rendering of the rewritten tokens
TransformStep ==
  contentHTML' # contentHTML =>
    \/ /\ stageLog = <<>>
       /\ pc = "render"
       /\ contentHTML' = Render(tokens)
       /\ stageLog' = stageLog
    \/ /\ Len(stageLog) < 10
       /\ contentHTML' = StageFn(TransformOrder[Len(stageLog) + 1], contentHTML)
       /\ stageLog' = Append(stageLog, TransformOrder[Len(stageLog) + 1])

\* C8: the ten transforms run once each in the fixed order, each on the
\* output of the one before, starting only after the image rewriting has
\* finished, and the HTML handed to draft creation is the last output.
TransformsRunOnceInOrder == []TransformsInOrder /\ [][TransformStep]_vars

\* a draft made of a document whose images were rewritten
DraftOfRewrittenImages ==
  /\ DraftCreated
  /\ uploaded # <<>>
  /\ stageLog = TransformOrder

\* C9: a response carrying an application-level error code ends the
\* command in the error state: the call is the last one made, so it is not
\* retried and no other call follows.
ErrcodeIsTerminal ==
  \A k \in 1..Len(calls) :
    calls[k].resp = "errcode" =>
      /\ k = Len(calls)
      /\ pc = "exit"
      /\ exitCode = 1

\* draft/add answered with an error code after the uploads had succeeded
DraftAddRefused ==
  /\ calls # <<>>
  /\ LastOf(calls).ep = "cgi-bin/draft/add"
  /\ LastOf(calls).resp = "errcode"
  /\ uploaded # <<>>

\* C10: an empty payload is never uploaded: no upload call carries zero
\* bytes, and from the fetch of an empty payload on the cache, the list of
\* uploaded URLs and the calls stay as they were, the run ending with the
\* empty-image error.
EmptyImageNeverUploaded ==
  /\ \A k \in CallsTo("cgi-bin/media/uploadimg") : Len(calls[k].arg.bytes) > 0
  /\ (imgLog # <<>> /\ LastOf(imgLog).got = "") =>
       /\ cache = snap.cache
       /\ uploaded = snap.uploaded
       /\ Len(calls) = snap.ncalls
       /\ pc \in {"fetched", "exit"}
       /\ pc = "exit" => exitCode = 1 /\ errMsg.kind = "image is empty"

\* an empty image met after another one was uploaded
EmptyImageAfterUpload ==
  /\ pc = "exit"
  /\ errMsg.kind = "image is empty"
  /\ uploaded # <<>>
  /\ cache # {}

\* the smallest number of a non-empty set of numbers
Least(S) == CHOOSE x \in S : \A y \in S : x <= y

\* the value of the first front-matter field "title" that has one
FieldTitle(fm) ==
  \E ks \in {{k \in 1..Len(fm) : fm[k].key = "title" /\ fm[k].val # ""}} :
    ks # {}

FieldTitleOf(fm) ==
  fm[Least({k \in 1..Len(fm) : fm[k].key = "title" /\ fm[k].val # ""})].val

HasH1(blocks) ==
  \E k \in 1..Len(blocks) : blocks[k].type = "heading" /\ blocks[k].a = "1"

\* the text of the first level-1 heading
FirstH1Of(blocks) ==
  blocks[Least({k \in 1..Len(blocks) :
                  blocks[k].type = "heading" /\ blocks[k].a = "1"})].kids[1].a

\* the title the fallback chain names, "" when it names none
ChainTitle ==
  IF Trim(opts.title) # "" THEN Trim(opts.title)
  ELSE IF FieldTitle(opts.doc.fm) THEN FieldTitleOf(opts.doc.fm)
  ELSE IF HasH1(opts.doc.blocks) THEN FirstH1Of(opts.doc.blocks)
  ELSE ""

\* the title step of a draft run is over
TitleResolved ==
  cmd = "draft" /\ (finalTitle # "" \/ errMsg.kind = "missing title")

\* C3: the title is the explicit one when not blank, else the front-matter
\* field title, else the first level-1 heading of the document; when there
\* is none of the three the run fails with the missing-title error and
\* creates no draft.
TitleFollowsFallbackChain ==
  TitleResolved =>
    IF ChainTitle = ""
    THEN /\ errMsg.kind = "missing title"
         /\ pc = "exit"
         /\ CallsTo("cgi-bin/draft/add") = {}
    ELSE finalTitle = ChainTitle

\* C6: the final HTML of a conversion holds no <ul>, <ol> or <li> tag,
\* opening or closing, no <h1> and no <table>, lists nested in list items
\* included.
NoListMarkupInFinalHtml ==
  pc = "dump" =>
    \A t \in {"<ul", "<ol", "<li", "</ul>", "</ol>", "</li>", "<h1", "<table"} :
      Find(contentHTML, t, 1) = 0

\* the literal texts of the task items of the document: the mark of the
\* checkbox, then the text of the item
TaskLiterals ==
  {(IF item.kids[1].kids[1] = CheckboxInput(TRUE) THEN "[x] " ELSE "[ ] ")
     \o item.kids[1].kids[2].a :
     item \in UNION {RangeOf(b.kids) :
                       b \in {b \in RangeOf(opts.doc.blocks) : b.a = "task"}}}

\* where an <input ... type="checkbox" ...> tag begins
CheckboxTags(html) ==
  {i \in 1..Len(html) :
     /\ MatchAt(html, "<input", i)
     /\ WordBoundary(html, i + 6)
     /\ Until(html, ">", i) <= Len(html)
     /\ Contains(Lower(Sub(html, i, Until(html, ">", i))), "type=\"checkbox\"")}

CodePointCount(s) ==
  Len(s) - Cardinality({i \in 1..(Len(s) - 1) : Ch(s, i) = "^" /\ Ch(s, i + 1) = "~"})

\* C5: the digest is empty when n <= 0 or the text is empty or blank; it
\* is the stripped text when that has at most n code points; otherwise it
\* is the first n code points of the stripped text and the ellipsis.
DigestTruncates ==
  pc = "return" =>
    \E n \in {DigestLength(opts.digestN)}, s \in {DigestText(mdText)} :
      IF n <= 0 \/ Trim(mdText) = "" THEN dg = ""
      ELSE IF CodePointCount(s) <= n THEN dg = s
      ELSE \E k \in 1..Len(s) :
             /\ dg = SubSeq(s, 1, k) \o "..."
             /\ CodePointCount(SubSeq(s, 1, k)) = n
             /\ ~(Ch(s, k) = "^" /\ Ch(s, k + 1) = "~")

\* a text cut right after a surrogate pair
DigestCutAfterPair ==
  /\ pc = "return"
  /\ DigestLength(opts.digestN) = 1
  /\ dg = "^~..."

\* p without the slashes that end it
WithoutTrailingSlash(p) ==
  SubSeq(p, 1, Least({k \in 0..Len(p) : \A j \in (k + 1)..Len(p) : Ch(p, j) = "/"}))

\* the final path segment of a reference: what follows its last slash,
\* the slashes that end it set aside
FinalSegmentOf(p) ==
  LET tail(q) ==
        From(q, 1 + Least({k \in 0..Len(q) : \A j \in (k + 1)..Len(q) : Ch(q, j) # "/"}))
  IN  tail(WithoutTrailingSlash(p))

\* the final segment, or the generic name when it is empty, "." or "/"
SegmentOrGeneric(p, generic) ==
  IF FinalSegmentOf(p) \in {"", ".", "/"} THEN generic ELSE FinalSegmentOf(p)

\* the last call is the upload of the image fetched last
BodyImageSent ==
  /\ imgLog # <<>>
  /\ Len(calls) = snap.ncalls + 1
  /\ LastOf(calls).ep = "cgi-bin/media/uploadimg"

ThumbSent ==
  /\ calls # <<>>
  /\ LastOf(calls).ep = "cgi-bin/material/add_material"

\* the file a local reference of the document resolves to
LocalFile(src) ==
  IF StartsWith(src, "/") THEN src ELSE PathJoin(PathDirname(opts.mdFile), src)

\* C11 as stated: for a local path and for a remote URL alike, the filename
\* sent with an upload is the final path segment of the resolved reference,
\* and the generic name stands in only for a segment that is empty, "." or
\* "/".
FilenameIsFinalSegment ==
  /\ BodyImageSent =>
       LastOf(calls).arg.filename =
         SegmentOrGeneric(IF IsRemote(LastOf(imgLog).src)
                          THEN LastOf(imgLog).src
                          ELSE LocalFile(LastOf(imgLog).src), "img.jpg")
  /\ ThumbSent =>
       LastOf(calls).arg.filename =
         SegmentOrGeneric(IF opts.file # "" THEN opts.file ELSE opts.url,
                          "cover.jpg")

\* C11: for a local path the filename sent with an upload is the final
\* path segment of the resolved path, the generic name standing in only
\* for a segment that is empty, "." or "/"; for a remote URL the generic
\* name is sent whatever the URL ("img.jpg" for a body image, "cover.jpg"
\* for a thumbnail).
FilenameOfLocalOrGeneric ==
  /\ BodyImageSent =>
       LastOf(calls).arg.filename =
         IF IsRemote(LastOf(imgLog).src) THEN "img.jpg"
         ELSE SegmentOrGeneric(LocalFile(LastOf(imgLog).src), "img.jpg")
  /\ ThumbSent =>
       LastOf(calls).arg.filename =
         IF opts.file # "" THEN SegmentOrGeneric(opts.file, "cover.jpg")
         ELSE "cover.jpg"

\* a body image read from a file next to the document was sent under the
\* name of the file
LocalImageSentByName ==
  /\ BodyImageSent
  /\ LastOf(imgLog).src = "a.png"
  /\ opts.mdFile = "d/a.md"
  /\ LastOf(calls).arg.filename = "a.png"

\* the positions of the nodes of a tree
RECURSIVE PathsOf(_)
PathsOf(ns) ==
  UNION {{<<k>>} \cup {<<k>> \o q : q \in PathsOf(ns[k].kids)} : k \in 1..Len(ns)}

\* p comes before q in the document: a node before its children, the
\* children before the siblings that follow the node
RECURSIVE Before(_, _)
Before(p, q) ==
  IF p = <<>> THEN q # <<>>
  ELSE IF q = <<>> THEN FALSE
  ELSE IF p[1] # q[1] THEN p[1] < q[1]
  ELSE Before(Tail(p), Tail(q))

\* the image nodes of the document, and those with a reference
ImagePaths ==
  {p \in PathsOf(opts.doc.blocks) : NodeAt(opts.doc.blocks, p).type = "image"}

Referenced == {p \in ImagePaths : Trim(NodeAt(opts.doc.blocks, p).a) # ""}

\* the platform URL the cache holds for a payload
UrlFor(got) == {e.url : e \in {e \in cache : e.h = "sha256:" \o got}}

\* C12 as stated: after a successful run every image node of the tree,
\* whatever its reference, holds a platform URL.
EveryImageOverwritten ==
  WalkFinished =>
    \A p \in ImagePaths : NodeAt(tokens, p).a \in RangeOf(uploaded)

\* the images handled so far are images with a reference, taken in the
\* order of the document, none twice and none left out, each finished
\* before the next was started; after the walk every such image holds the
\* URL of its bytes and every other node is as it was parsed
ImagesInOrder ==
  cmd = "draft" /\ tokens # <<>> =>
    /\ \A i \in 1..Len(imgLog) :
         /\ imgLog[i].path \in Referenced
         /\ imgLog[i].src = Trim(NodeAt(opts.doc.blocks, imgLog[i].path).a)
         /\ \A j \in (i + 1)..Len(imgLog) : Before(imgLog[i].path, imgLog[j].path)
         /\ i < Len(imgLog) => UrlFor(imgLog[i].got) = {SrcNow(i)}
    /\ pc \in {"walk", "fetched"} \/ WalkFinished =>
         \A p \in Referenced :
           (path = <<>> \/ Before(p, path) \/ (p = path /\ pc = "fetched"))
             <=> (\E i \in 1..Len(imgLog) : imgLog[i].path = p)
    /\ WalkFinished =>
         /\ \A i \in 1..Len(imgLog) :
              /\ UrlFor(imgLog[i].got) = {SrcNow(i)}
              /\ SrcNow(i) \in RangeOf(uploaded)
         /\ \A p \in PathsOf(opts.doc.blocks) \ Referenced :
              NodeAt(tokens, p).a = NodeAt(opts.doc.blocks, p).a

\* a step that changes the parsed tree writes the reference of the image
\* being handled, which was not written before, and nothing else
ImageWriteStep ==
  tokens # <<>> /\ tokens' # tokens =>
    /\ pc = "fetched"
    /\ imgLog # <<>>
    /\ LastOf(imgLog).path = path
    /\ NodeAt(tokens, path).a = NodeAt(opts.doc.blocks, path).a
    /\ NodeAt(tokens', path).a \in RangeOf(uploaded')
    /\ PathsOf(tokens') = PathsOf(tokens)
    /\ \A q \in PathsOf(tokens) :
         /\ NodeAt(tokens', q).type = NodeAt(tokens, q).type
         /\ q # path => NodeAt(tokens', q).a = NodeAt(tokens, q).a

\* C12: rewriteImageTokens visits every image node exactly once, depth
\* first in document order, and handles one image completely before the
\* next; after a successful run every image node whose reference is not
\* blank was overwritten exactly once and holds the platform URL returned
\* for its bytes, and an image node with a blank reference is untouched.
ImagesRewrittenOnceInOrder == []ImagesInOrder /\ [][ImageWriteStep]_vars

\* the image of the list item and the image after it were both rewritten
NestedImagesRewritten ==
  /\ WalkFinished
  /\ opts.doc = NestedImageDoc
  /\ Len(imgLog) = 2
  /\ imgLog[1].path = <<2, 1, 1, 2>>
  /\ imgLog[2].path = <<3, 1>>
  /\ SrcNow(1) \in RangeOf(uploaded)
  /\ SrcNow(2) \in RangeOf(uploaded)

\* the run ended because no title was found
MissingTitle == cmd = "draft" /\ errMsg.kind = "missing title"

\* C13 as stated: the title is resolved before any image is uploaded, so a
\* run that fails for its missing title has made no upload call.
MissingTitleMeansNoUpload ==
  MissingTitle => CallsTo("cgi-bin/media/uploadimg") = {}

\* C13: a draft run that fails because no title can be resolved creates no
\* draft; the title is resolved only after the image rewriting has
\* finished, so at that failure every image with a reference has been
\* fetched and rewritten and each distinct fingerprint was uploaded once.
MissingTitleAfterImages ==
  MissingTitle =>
    /\ pc = "exit"
    /\ exitCode = 2
    /\ CallsTo("cgi-bin/draft/add") = {}
    /\ path = <<>>
    /\ \A p \in Referenced :
         /\ \E i \in 1..Len(imgLog) : imgLog[i].path = p
         /\ NodeAt(tokens, p).a \in RangeOf(uploaded)
    /\ Cardinality(CallsTo("cgi-bin/media/uploadimg"))
         = Cardinality({imgLog[i].got : i \in 1..Len(imgLog)})
    /\ stageLog = <<>>
    /\ contentHTML = ""

\* a run that uploaded two images and then found no title
UploadedThenMissingTitle ==
  /\ MissingTitle
  /\ Cardinality(CallsTo("cgi-bin/media/uploadimg")) = 2
  /\ Len(uploaded) = 2

====
